---- MODULE Spec2Model ----
\* Model of tasks/blackhole_task.go (BlackholeTask): the rule compiler
\* (rules, dig), the rule executor (iptables) and the lifecycle of Execute.
\* Go strings are sequences of one-character strings, so that the regular
\* expressions and the case conversions are computed character by character.
EXTENDS Bags, FiniteSets, Integers, Sequences, TLC

\* ---------------------------------------------------------------- bounds
MaxTargets == 2

\* ------------------------------------------------------- string helpers
Digits == {"0", "1", "2", "3", "4", "5", "6", "7", "8", "9"}

Lowers == <<"a","b","c","d","e","f","g","h","i","j","k","l","m",
            "n","o","p","q","r","s","t","u","v","w","x","y","z">>

Uppers == <<"A","B","C","D","E","F","G","H","I","J","K","L","M",
            "N","O","P","Q","R","S","T","U","V","W","X","Y","Z">>

\* A character outside ASCII is written by its code point. These are the
\* letters outside ASCII that unicode.ToUpper, or unicode.ToLower, maps to an
\* ASCII letter: U+0131 (dotless i) and U+017F (long s) have the capitals I
\* and S, U+0130 (I with dot above) and U+212A (Kelvin sign) the small
\* letters i and k. Every other letter outside ASCII is mapped to a character
\* outside ASCII, which no word of the program holds.
DotlessI == "U+0131"
LongS    == "U+017F"
DottedI  == "U+0130"
KelvinK  == "U+212A"

\* Variant of ToUpper that leaves the letters as they are (the direction is
\* compared as it was written); C12 does not hold of it.
ToUpperNone(s) == s

\* strings.ToUpper: unicode.ToUpper of every character.
ToUpper(s) ==
    [k \in 1..Len(s) |->
        IF \E j \in 1..Len(Lowers) : Lowers[j] = s[k]
        THEN Uppers[CHOOSE j \in 1..Len(Lowers) : Lowers[j] = s[k]]
        ELSE IF s[k] = DotlessI THEN "I"
        ELSE IF s[k] = LongS THEN "S"
        ELSE s[k]]

\* strings.ToLower: unicode.ToLower of every character.
ToLower(s) ==
    [k \in 1..Len(s) |->
        IF \E j \in 1..Len(Uppers) : Uppers[j] = s[k]
        THEN Lowers[CHOOSE j \in 1..Len(Uppers) : Uppers[j] = s[k]]
        ELSE IF s[k] = DottedI THEN "i"
        ELSE IF s[k] = KelvinK THEN "k"
        ELSE s[k]]

\* Length of the longest run of decimal digits of s that starts at position p.
RECURSIVE DigitRun(_, _)
DigitRun(s, p) ==
    IF p >= 1 /\ p <= Len(s) /\ s[p] \in Digits
    THEN 1 + DigitRun(s, p + 1)
    ELSE 0

\* The characters s[a..b] are decimal digits.
DigitsIn(s, a, b) == \A k \in a..b : s[k] \in Digits

\* The parts of ipPattern = (\d{1,3}\.\d{1,3}\.\d{1,3}\.\d{1,3})(/\d{0,2})?,
\* each as the set of positions where a match of the part can end when it
\* starts at a position of P: \d{1,3}\. then \d{1,3} then (/\d{0,2})?
OctetDotEnds(s, P) ==
    UNION { {b \in (a + 2)..(a + 4) :
                b - 1 <= Len(s) /\ DigitsIn(s, a, b - 2) /\ s[b - 1] = "."}
            : a \in P }

OctetEnds(s, P) ==
    UNION { {b \in (a + 1)..(a + 3) : b - 1 <= Len(s) /\ DigitsIn(s, a, b - 1)}
            : a \in P }

PrefixEnds(s, P) ==
    UNION { {a} \cup {b \in (a + 1)..(a + 3) :
                        /\ b - 1 <= Len(s)
                        /\ s[a] = "/"
                        /\ DigitsIn(s, a + 1, b - 1)}
            : a \in P }

\* The positions after the matches of ipPattern that start at position p.
IpMatchEnds(s, p) ==
    PrefixEnds(s, OctetEnds(s,
        OctetDotEnds(s, OctetDotEnds(s, OctetDotEnds(s, {p})))))

Max(S) == CHOOSE e \in S : \A f \in S : f <= e

\* The match of ipPattern that starts at position p: the position after it,
\* or 0 when there is none. Every repetition of the pattern is greedy and the
\* pattern has no alternation, so the match Go takes is the longest one.
IpMatchEnd(s, p) == Max({0} \cup IpMatchEnds(s, p))

\* Variant of IpFindAll that stops at the first match (FindString for
\* FindAllString); C16 does not hold of it.
IpFindFirst(s) ==
    LET starts == {p \in 1..Len(s) : IpMatchEnd(s, p) # 0} IN
    IF starts = {} THEN <<>>
    ELSE LET p == CHOOSE p \in starts : \A q \in starts : p <= q
         IN  <<SubSeq(s, p, IpMatchEnd(s, p) - 1)>>

\* ipPattern.FindAllString(s, -1): the successive non-overlapping leftmost
\* matches, find[p] being those found from position p on. No match at all is
\* Go's nil, here <<>>.
IpFindAll(s) ==
    LET end[p \in 1..Len(s)] == IpMatchEnd(s, p)
        find[p \in 1..(Len(s) + 1)] ==
            IF p > Len(s) THEN <<>>
            ELSE IF end[p] = 0 THEN find[p + 1]
            ELSE <<SubSeq(s, p, end[p] - 1)>> \o find[end[p]]
    IN  find[1]

\* ipPattern.MatchString
IpMatchString(s) == \E p \in 1..Len(s) : IpMatchEnd(s, p) # 0

\* portPattern = \d+(:\d+)?$ : MatchString is not anchored at the start, so
\* it holds when some suffix of s is a port or a low:high range.
PortMatchString(s) ==
    \E p \in 1..Len(s) :
        LET n == DigitRun(s, p)
            q == p + n
        IN  /\ n >= 1
            /\ \/ q = Len(s) + 1
               \/ /\ q <= Len(s)
                  /\ s[q] = ":"
                  /\ DigitRun(s, q + 1) >= 1
                  /\ q + 1 + DigitRun(s, q + 1) = Len(s) + 1

\* The hosts of a rule, joined by commas (the loops at lines 167-170 and
\* 192-195): join[k] is the text after k iterations.
JoinComma(hosts) ==
    LET join[k \in 0..Len(hosts)] ==
            IF k = 0 THEN <<>>
            ELSE join[k - 1] \o (IF k > 1 THEN <<",">> ELSE <<>>) \o hosts[k]
    IN  join[Len(hosts)]

\* strings.Split(s, " "): split[p] is the fields of s from position p on.
SplitSpace(s) ==
    LET split[p \in 1..(Len(s) + 1)] ==
            LET spaces == {k \in p..Len(s) : s[k] = " "} IN
            IF spaces = {} THEN <<SubSeq(s, p, Len(s))>>
            ELSE LET k == CHOOSE k \in spaces : \A j \in spaces : k <= j
                 IN  <<SubSeq(s, p, k - 1)>> \o split[k + 1]
    IN  split[1]

\* ----------------------------------------------------------------- errors
\* An error value: its message and the value formatted into it. Nil is Go's nil.
Nil == [msg |-> "nil", arg |-> <<>>]

Err(m, a) == [msg |-> m, arg |-> a]

\* -------------------------------------------------------- rule compiler
S_INPUT  == <<"I","N","P","U","T">>
S_OUTPUT == <<"O","U","T","P","U","T">>
S_BOTH   == <<"B","O","T","H">>
S_all    == <<"a","l","l">>
S_tcp    == <<"t","c","p">>
S_udp    == <<"u","d","p">>
S_icmp   == <<"i","c","m","p">>

\* Variant of Dig that does not look at the error of the command (lines
\* 219-221) and scans the output it got; C14 does not hold of it.
DigIgnoreCommandError(hostname, env) ==
    LET ips == IpFindAll(env[hostname].output) IN
    IF ips = <<>>
    THEN [ips |-> <<>>, err |-> Err("No IPs found for host", hostname)]
    ELSE [ips |-> ips, err |-> Nil]

\* Variant of Dig without the check of an empty result (lines 224-226): an
\* output without any address gives no host and no error; C19 does not hold
\* of it.
DigNoEmptyCheck(hostname, env) ==
    IF ~env[hostname].ok
    THEN [ips |-> <<>>, err |-> Err("resolving host name", <<>>)]
    ELSE [ips |-> IpFindAll(env[hostname].output), err |-> Nil]

\* BlackholeTask.dig: run "dig +short hostname" and scan its output. env maps
\* a host name to what the command runner returns for it: [ok, output].
Dig(hostname, env) ==
    IF ~env[hostname].ok
    THEN [ips |-> <<>>, err |-> Err("resolving host name", <<>>)]
    ELSE LET ips == IpFindAll(env[hostname].output) IN
         IF ips = <<>>
         THEN [ips |-> <<>>, err |-> Err("No IPs found for host", hostname)]
         ELSE [ips |-> ips, err |-> Nil]

\* The command string of one chain (lines 163-183 for INPUT with " -s ",
\* lines 188-208 for OUTPUT with " -d ").
Command(chain, hostFlag, hosts, protocol, dports, sports) ==
    chain
    \o (IF hosts # <<>> THEN hostFlag \o JoinComma(hosts) ELSE <<>>)
    \o <<" ","-","p"," ">> \o protocol
    \o (IF dports # <<>> THEN <<" ","-","d","p","o","r","t"," ">> \o dports ELSE <<>>)
    \o (IF sports # <<>> THEN <<" ","-","s","p","o","r","t"," ">> \o sports ELSE <<>>)
    \o <<" ","-","j"," ","D","R","O","P">>

\* One iteration of the loop of BlackholeTask.rules: the rules of one target,
\* or the error that makes rules return, and the host names given to dig.
TargetRules(target, env) ==
    LET needDig == target.Host # <<>> /\ ~IpMatchString(target.Host)
        digs    == IF needDig THEN <<target.Host>> ELSE <<>>
        dug     == IF needDig THEN Dig(target.Host, env)
                   ELSE [ips |-> <<>>, err |-> Nil]
        hosts   == IF target.Host = <<>> THEN <<>>
                   ELSE IF IpMatchString(target.Host) THEN IpFindAll(target.Host)
                   ELSE dug.ips
        dirU    == ToUpper(target.Direction)
        direction == IF dirU = S_INPUT THEN S_INPUT
                     ELSE IF dirU = S_OUTPUT THEN S_OUTPUT
                     ELSE <<>>
        protL   == ToLower(target.Protocol)
        protocol == IF protL = <<>> THEN S_all ELSE protL
        fail(e, d) == [rules |-> <<>>, err |-> e, digs |-> d]
    IN
    IF target.Host = <<>> /\ target.DstPorts = <<>> /\ target.SrcPorts = <<>>
    THEN fail(Err("Must specify at least one of Host, DstPorts, and or SrcPorts.", <<>>), <<>>)
    ELSE IF dug.err # Nil
    THEN fail(dug.err, digs)
    ELSE IF dirU \notin {<<>>, S_INPUT, S_OUTPUT, S_BOTH}
    THEN fail(Err("Invalid direction", target.Direction), digs)
    ELSE IF protL \notin {<<>>, S_tcp, S_udp, S_icmp, S_all}
    THEN fail(Err("Invalid protocol", target.Protocol), digs)
    ELSE IF target.DstPorts # <<>> /\ ~PortMatchString(target.DstPorts)
    THEN fail(Err("Invalid destination port specified", target.DstPorts), digs)
    ELSE IF target.SrcPorts # <<>> /\ ~PortMatchString(target.SrcPorts)
    THEN fail(Err("Invalid destination port specified", target.SrcPorts), digs)
    ELSE [rules |->
            (IF direction = <<>> \/ direction = S_INPUT
             THEN <<Command(S_INPUT, <<" ","-","s"," ">>, hosts, protocol,
                            target.DstPorts, target.SrcPorts)>>
             ELSE <<>>)
            \o
            (IF direction = <<>> \/ direction = S_OUTPUT
             THEN <<Command(S_OUTPUT, <<" ","-","d"," ">>, hosts, protocol,
                            target.DstPorts, target.SrcPorts)>>
             ELSE <<>>),
          err |-> Nil,
          digs |-> digs]

\* BlackholeTask.rules from target k on, with the rules and the dig calls
\* accumulated so far: the first failing target returns (nil, err).
RECURSIVE RulesFrom(_, _, _, _, _)
RulesFrom(targets, env, k, acc, digs) ==
    IF k > Len(targets) THEN [rules |-> acc, err |-> Nil, digs |-> digs]
    ELSE LET r == TargetRules(targets[k], env) IN
         IF r.err # Nil
         THEN [rules |-> <<>>, err |-> r.err, digs |-> digs \o r.digs]
         ELSE RulesFrom(targets, env, k + 1, acc \o r.rules, digs \o r.digs)

\* BlackholeTask.rules
Rules(targets, env) == RulesFrom(targets, env, 1, <<>>, <<>>)

\* ------------------------------------------------------- the inputs drawn
T(h, d, p, dp, sp) ==
    [Host |-> h, Direction |-> d, Protocol |-> p, DstPorts |-> dp, SrcPorts |-> sp]

H_ip   == <<"1","0",".","0",".","0",".","5">>
H_two  == <<"1",".","1",".","1",".","1"," ","2",".","2",".","2",".","2","/","2","4">>
H_name == <<"d","b">>
P_80   == <<"8","0">>

\* BlackholeTarget values: valid ones (a literal host, two literals, a host
\* name, ports only, each direction) and failing ones (nothing set, a
\* direction that does not exist; a host name fails when dig does).
TargetSet ==
    { T(<<>>, <<>>, <<>>, <<>>, <<>>),
      T(H_ip, <<>>, <<>>, <<>>, <<>>),
      T(H_ip, <<"i","n","p","u","t">>, <<>>, <<>>, <<>>),
      T(<<>>, <<>>, <<>>, P_80, <<>>),
      T(H_name, S_OUTPUT, <<"T","C","P">>, <<>>, <<"a","8","0">>),
      T(H_two, <<"b","o","t","h">>, <<"u","d","p">>, <<"8","0",":","9","0">>, <<>>),
      T(<<>>, <<"u","p">>, <<>>, P_80, <<>>) }

RECURSIVE SeqsUpTo(_, _)
SeqsUpTo(S, n) ==
    IF n = 0 THEN {<<>>}
    ELSE LET shorter == SeqsUpTo(S, n - 1) IN
         shorter \cup {Append(q, x) : q \in shorter, x \in S}

\* BlackholeOptions.Timeout values: none, a duration, a malformed one.
TimeoutSet == {<<>>, <<"5","s">>, <<"5","x">>}

\* What the command runner returns for "dig +short db": a failure, an output
\* without any address, one address, two addresses.
DigOutcomes ==
    { [ok |-> FALSE, output |-> <<>>],
      [ok |-> TRUE,  output |-> <<"\n">>],
      [ok |-> TRUE,  output |-> <<"1",".","2",".","3",".","4","\n">>],
      [ok |-> TRUE,  output |-> <<"1",".","1",".","1",".","1","\n",
                                  "2",".","2",".","2",".","2","\n">>] }

\* The firewall table before the invocation: empty, or already holding a rule
\* that the target {DstPorts: "80"} compiles to.
TableSet ==
    { EmptyBag,
      SetToBag({Command(S_INPUT, <<" ","-","s"," ">>, <<>>, S_all, P_80, <<>>)}) }

\* --------------------------------------------------------------- the state
VARIABLES
    opts,       \* BlackholeTask.opts: [Timeout, Targets]
    digEnv,     \* the command runner's answer to dig, per host name
    table0,     \* the firewall table when Execute is called
    table,      \* the firewall table: a bag of installed rules
    pc,         \* the position of Execute
    rules,      \* the rules: the local of rules() while it runs, then of Execute
    i,          \* the index of the current loop, of rules() or of Execute (1-based)
    cmds,       \* the commands given to cmdRunner.RunCommand, with their outcome
    result,     \* the error returned by Execute (Nil: none)
    timeoutCh,  \* the timer channel: "nil", "armed", "fired", "received"
    stopCh,     \* the stop channel: "open", "ready", "received"
    waits       \* the cases the select statement has taken, in order

vars == <<opts, digEnv, table0, table, pc, rules, i, cmds, result,
          timeoutCh, stopCh, waits>>

Init ==
    /\ opts \in [Timeout : TimeoutSet, Targets : SeqsUpTo(TargetSet, MaxTargets)]
    /\ digEnv \in [{H_name} -> DigOutcomes]
    /\ table0 \in TableSet
    /\ table = table0
    /\ pc = "start"
    /\ rules = <<>>
    /\ i = 0
    /\ cmds = <<>>
    /\ result = Nil
    /\ timeoutCh = "nil"
    /\ stopCh = "open"
    /\ waits = <<>>

\* ------------------------------------------------------------ operations
\* NewOptionalTimeoutCh: no channel for the empty string, an error for a
\* string that is not a decimal number followed by ms, s, m or h, and
\* otherwise the channel of a timer that starts now.
NewOptionalTimeoutCh(timeoutStr) ==
    LET n == DigitRun(timeoutStr, 1)
        unit == SubSeq(timeoutStr, n + 1, Len(timeoutStr))
    IN  IF timeoutStr = <<>> THEN [ch |-> "nil", err |-> Nil]
        ELSE IF n >= 1 /\ unit \in {<<"m","s">>, <<"s">>, <<"m">>, <<"h">>}
        THEN [ch |-> "armed", err |-> Nil]
        ELSE [ch |-> "nil", err |-> Err("Parsing timeout", timeoutStr)]

A_APPEND == <<"-","A">>
A_DELETE == <<"-","D">>

\* The call of cmdRunner.RunCommand made by BlackholeTask.dig.
DigCmd(hostname, env) ==
    [name |-> "dig",
     args |-> << <<"+","s","h","o","r","t">>, hostname >>,
     ok   |-> env[hostname].ok]

\* Variant of IptablesCmd that gives a rule to delete as one argument instead
\* of splitting it; C11 does not hold of it.
IptablesCmdUnsplitDelete(action, rule, ok) ==
    [name |-> "iptables",
     args |-> IF action = A_DELETE THEN <<action, rule>>
              ELSE <<action>> \o SplitSpace(rule),
     ok   |-> ok]

\* The call of cmdRunner.RunCommand made by BlackholeTask.iptables.
IptablesCmd(action, rule, ok) ==
    [name |-> "iptables", args |-> <<action>> \o SplitSpace(rule), ok |-> ok]

\* Variant of IptablesErr that returns the error of the command runner as it
\* is, without the description; C18 does not hold of it.
IptablesErrUnwrapped(ok) == IF ok THEN Nil ELSE Err("exit status 1", <<>>)

\* BlackholeTask.iptables: the error it returns when the command succeeds or not.
IptablesErr(ok) == IF ok THEN Nil ELSE Err("Shelling out to iptables", <<>>)

\* What a successful iptables command does to the table: -A adds one copy of
\* the rule, -D removes one copy.
FirewallAfter(tbl, action, rule) ==
    IF action = A_APPEND THEN tbl (+) SetToBag({rule})
    ELSE tbl (-) SetToBag({rule})

\* iptables -D succeeds only on a rule the table holds.
CanSucceed(tbl, action, rule) == action = A_APPEND \/ BagIn(rule, tbl)

\* Variant of ParseTimeout that does not return the error of
\* NewOptionalTimeoutCh and goes on without a timer; C20 does not hold of it.
ParseTimeoutIgnoreError ==
    /\ pc = "start"
    /\ timeoutCh' = NewOptionalTimeoutCh(opts.Timeout).ch
    /\ pc' = "compile"
    /\ i' = 1
    /\ UNCHANGED <<opts, digEnv, table0, table, rules, cmds, result,
                   stopCh, waits>>

\* Execute, lines 62-65, up to the call of t.rules() at line 67, whose loop
\* starts at the first target.
ParseTimeout ==
    /\ pc = "start"
    /\ LET r == NewOptionalTimeoutCh(opts.Timeout) IN
       IF r.err # Nil
       THEN /\ result' = r.err
            /\ pc' = "failed"
            /\ UNCHANGED <<timeoutCh, i>>
       ELSE /\ timeoutCh' = r.ch
            /\ pc' = "compile"
            /\ i' = 1
            /\ UNCHANGED result
    /\ UNCHANGED <<opts, digEnv, table0, table, rules, cmds, stopCh, waits>>

\* Variant of RulesIteration that puts the rules of a target before those of
\* the targets compiled earlier; C17 does not hold of it.
RulesIterationPrepend ==
    /\ pc = "compile"
    /\ i <= Len(opts.Targets)
    /\ LET r == TargetRules(opts.Targets[i], digEnv) IN
       /\ cmds' = cmds \o [k \in 1..Len(r.digs) |-> DigCmd(r.digs[k], digEnv)]
       /\ IF r.err # Nil
          THEN /\ result' = r.err
               /\ rules' = <<>>
               /\ pc' = "failed"
               /\ UNCHANGED i
          ELSE /\ rules' = r.rules \o rules
               /\ i' = i + 1
               /\ UNCHANGED <<pc, result>>
    /\ UNCHANGED <<opts, digEnv, table0, table, timeoutCh, stopCh, waits>>

\* Variant of RulesIteration that skips a failing target instead of returning
\* its error (continue for return); C4 does not hold of it.
RulesIterationSkipFailing ==
    /\ pc = "compile"
    /\ i <= Len(opts.Targets)
    /\ LET r == TargetRules(opts.Targets[i], digEnv) IN
       /\ cmds' = cmds \o [k \in 1..Len(r.digs) |-> DigCmd(r.digs[k], digEnv)]
       /\ rules' = IF r.err # Nil THEN rules ELSE rules \o r.rules
       /\ i' = i + 1
       /\ UNCHANGED <<pc, result>>
    /\ UNCHANGED <<opts, digEnv, table0, table, timeoutCh, stopCh, waits>>

\* One iteration of the loop of BlackholeTask.rules (lines 96-211), which
\* runs at most one command, dig: the rules of target i are appended to the
\* rules compiled so far, or rules returns (nil, err) and Execute returns err
\* (lines 68-70).
RulesIteration ==
    /\ pc = "compile"
    /\ i <= Len(opts.Targets)
    /\ LET r == TargetRules(opts.Targets[i], digEnv) IN
       /\ cmds' = cmds \o [k \in 1..Len(r.digs) |-> DigCmd(r.digs[k], digEnv)]
       /\ IF r.err # Nil
          THEN /\ result' = r.err
               /\ rules' = <<>>
               /\ pc' = "failed"
               /\ UNCHANGED i
          ELSE /\ rules' = rules \o r.rules
               /\ i' = i + 1
               /\ UNCHANGED <<pc, result>>
    /\ UNCHANGED <<opts, digEnv, table0, table, timeoutCh, stopCh, waits>>

\* The return at line 213, after the last target: Execute has the rules and
\* enters the loop at line 72.
RulesReturn ==
    /\ pc = "compile"
    /\ i > Len(opts.Targets)
    /\ pc' = "applying"
    /\ i' = 1
    /\ UNCHANGED <<opts, digEnv, table0, table, rules, cmds, result,
                   timeoutCh, stopCh, waits>>

\* Variant of ApplyRule that does not return the error of a failed command
\* and goes on with the next rule; C2 does not hold of it.
ApplyRuleIgnoreError ==
    /\ pc = "applying"
    /\ i <= Len(rules)
    /\ \E ok \in BOOLEAN :
        /\ ok => CanSucceed(table, A_APPEND, rules[i])
        /\ cmds' = Append(cmds, IptablesCmd(A_APPEND, rules[i], ok))
        /\ table' = IF ok THEN FirewallAfter(table, A_APPEND, rules[i]) ELSE table
        /\ i' = i + 1
        /\ UNCHANGED <<pc, result>>
    /\ UNCHANGED <<opts, digEnv, table0, rules, timeoutCh, stopCh, waits>>

\* Variant of ApplyRule that looks at the stop signal before each rule and
\* goes to the revert loop when it was delivered; C10 does not hold of it.
ApplyRuleInterruptible ==
    /\ pc = "applying"
    /\ i <= Len(rules)
    /\ IF stopCh = "ready"
       THEN /\ stopCh' = "received"
            /\ pc' = "reverting"
            /\ i' = 1
            /\ UNCHANGED <<table, cmds, result>>
       ELSE /\ \E ok \in BOOLEAN :
                /\ ok => CanSucceed(table, A_APPEND, rules[i])
                /\ cmds' = Append(cmds, IptablesCmd(A_APPEND, rules[i], ok))
                /\ IF ok
                   THEN /\ table' = FirewallAfter(table, A_APPEND, rules[i])
                        /\ i' = i + 1
                        /\ UNCHANGED <<pc, result>>
                   ELSE /\ result' = IptablesErr(ok)
                        /\ pc' = "failed"
                        /\ UNCHANGED <<table, i>>
            /\ UNCHANGED stopCh
    /\ UNCHANGED <<opts, digEnv, table0, rules, timeoutCh, waits>>

\* One iteration of the loop at lines 72-77.
ApplyRule ==
    /\ pc = "applying"
    /\ i <= Len(rules)
    /\ \E ok \in BOOLEAN :
        /\ ok => CanSucceed(table, A_APPEND, rules[i])
        /\ cmds' = Append(cmds, IptablesCmd(A_APPEND, rules[i], ok))
        /\ IF ok
           THEN /\ table' = FirewallAfter(table, A_APPEND, rules[i])
                /\ i' = i + 1
                /\ UNCHANGED <<pc, result>>
           ELSE /\ result' = IptablesErr(ok)
                /\ pc' = "failed"
                /\ UNCHANGED <<table, i>>
    /\ UNCHANGED <<opts, digEnv, table0, rules, timeoutCh, stopCh, waits>>

\* The end of the loop at lines 72-77: Execute reaches the select statement.
ApplyDone ==
    /\ pc = "applying"
    /\ i > Len(rules)
    /\ pc' = "waiting"
    /\ UNCHANGED <<opts, digEnv, table0, table, rules, i, cmds, result,
                   timeoutCh, stopCh, waits>>

\* Variant of Wait whose select statement is in a loop that only the stop
\* case leaves; C7 does not hold of it.
WaitLoopOnTimer ==
    /\ pc = "waiting"
    /\ \/ /\ timeoutCh = "fired"
          /\ timeoutCh' = "received"
          /\ waits' = Append(waits, "timer")
          /\ UNCHANGED <<stopCh, pc, i>>
       \/ /\ stopCh = "ready"
          /\ stopCh' = "received"
          /\ waits' = Append(waits, "stop")
          /\ pc' = "reverting"
          /\ i' = 1
          /\ UNCHANGED timeoutCh
    /\ UNCHANGED <<opts, digEnv, table0, table, rules, cmds, result>>

\* Variant of Wait in which a receive from the nil channel is ready, as a
\* receive from a closed channel is; C8 does not hold of it.
WaitNilChannelReady ==
    /\ pc = "waiting"
    /\ \/ /\ timeoutCh \in {"fired", "nil"}
          /\ timeoutCh' = IF timeoutCh = "nil" THEN "nil" ELSE "received"
          /\ waits' = Append(waits, "timer")
          /\ UNCHANGED stopCh
       \/ /\ stopCh = "ready"
          /\ stopCh' = "received"
          /\ waits' = Append(waits, "stop")
          /\ UNCHANGED timeoutCh
    /\ pc' = "reverting"
    /\ i' = 1
    /\ UNCHANGED <<opts, digEnv, table0, table, rules, cmds, result>>

\* Variant of Wait without the timer case: a receive from stopCh alone; C9
\* does not hold of it.
WaitStopOnly ==
    /\ pc = "waiting"
    /\ stopCh = "ready"
    /\ stopCh' = "received"
    /\ waits' = Append(waits, "stop")
    /\ pc' = "reverting"
    /\ i' = 1
    /\ UNCHANGED <<opts, digEnv, table0, table, rules, cmds, result, timeoutCh>>

\* Variant of Wait whose timer case returns an error instead of going on to
\* the revert loop; C15 does not hold of it.
WaitTimeoutIsError ==
    /\ pc = "waiting"
    /\ \/ /\ timeoutCh = "fired"
          /\ timeoutCh' = "received"
          /\ waits' = Append(waits, "timer")
          /\ pc' = "failed"
          /\ result' = Err("Timed out", opts.Timeout)
          /\ UNCHANGED <<stopCh, i>>
       \/ /\ stopCh = "ready"
          /\ stopCh' = "received"
          /\ waits' = Append(waits, "stop")
          /\ pc' = "reverting"
          /\ i' = 1
          /\ UNCHANGED <<timeoutCh, result>>
    /\ UNCHANGED <<opts, digEnv, table0, table, rules, cmds>>

\* The select statement at lines 79-82: it takes one of the cases that are
\* ready (a nil channel never is), any of them when both are.
Wait ==
    /\ pc = "waiting"
    /\ \/ /\ timeoutCh = "fired"
          /\ timeoutCh' = "received"
          /\ waits' = Append(waits, "timer")
          /\ UNCHANGED stopCh
       \/ /\ stopCh = "ready"
          /\ stopCh' = "received"
          /\ waits' = Append(waits, "stop")
          /\ UNCHANGED timeoutCh
    /\ pc' = "reverting"
    /\ i' = 1
    /\ UNCHANGED <<opts, digEnv, table0, table, rules, cmds, result>>

\* Variant of RevertRule that reverts the rules from the last to the first;
\* C1 does not hold of it.
RevertRuleReversed ==
    /\ pc = "reverting"
    /\ i <= Len(rules)
    /\ \E ok \in BOOLEAN :
        /\ ok => CanSucceed(table, A_DELETE, rules[Len(rules) + 1 - i])
        /\ cmds' = Append(cmds, IptablesCmd(A_DELETE, rules[Len(rules) + 1 - i], ok))
        /\ IF ok
           THEN /\ table' = FirewallAfter(table, A_DELETE, rules[Len(rules) + 1 - i])
                /\ i' = i + 1
                /\ UNCHANGED <<pc, result>>
           ELSE /\ result' = IptablesErr(ok)
                /\ pc' = "failed"
                /\ UNCHANGED <<table, i>>
    /\ UNCHANGED <<opts, digEnv, table0, rules, timeoutCh, stopCh, waits>>

\* Variant of RevertRule that does not return the error of a failed command
\* and goes on with the next rule; C3 does not hold of it.
RevertRuleIgnoreError ==
    /\ pc = "reverting"
    /\ i <= Len(rules)
    /\ \E ok \in BOOLEAN :
        /\ ok => CanSucceed(table, A_DELETE, rules[i])
        /\ cmds' = Append(cmds, IptablesCmd(A_DELETE, rules[i], ok))
        /\ table' = IF ok THEN FirewallAfter(table, A_DELETE, rules[i]) ELSE table
        /\ i' = i + 1
        /\ UNCHANGED <<pc, result>>
    /\ UNCHANGED <<opts, digEnv, table0, rules, timeoutCh, stopCh, waits>>

\* Variant of RevertRule that returns nil when the command fails; C6 does not
\* hold of it.
RevertRuleSwallowError ==
    /\ pc = "reverting"
    /\ i <= Len(rules)
    /\ \E ok \in BOOLEAN :
        /\ ok => CanSucceed(table, A_DELETE, rules[i])
        /\ cmds' = Append(cmds, IptablesCmd(A_DELETE, rules[i], ok))
        /\ IF ok
           THEN /\ table' = FirewallAfter(table, A_DELETE, rules[i])
                /\ i' = i + 1
                /\ UNCHANGED <<pc, result>>
           ELSE /\ result' = Nil
                /\ pc' = "done"
                /\ UNCHANGED <<table, i>>
    /\ UNCHANGED <<opts, digEnv, table0, rules, timeoutCh, stopCh, waits>>

\* One iteration of the loop at lines 84-89.
RevertRule ==
    /\ pc = "reverting"
    /\ i <= Len(rules)
    /\ \E ok \in BOOLEAN :
        /\ ok => CanSucceed(table, A_DELETE, rules[i])
        /\ cmds' = Append(cmds, IptablesCmd(A_DELETE, rules[i], ok))
        /\ IF ok
           THEN /\ table' = FirewallAfter(table, A_DELETE, rules[i])
                /\ i' = i + 1
                /\ UNCHANGED <<pc, result>>
           ELSE /\ result' = IptablesErr(ok)
                /\ pc' = "failed"
                /\ UNCHANGED <<table, i>>
    /\ UNCHANGED <<opts, digEnv, table0, rules, timeoutCh, stopCh, waits>>

\* Variant of RevertDone whose loop stops one rule early; C5 does not hold
\* of it.
RevertDoneEarly ==
    /\ pc = "reverting"
    /\ i >= Len(rules)
    /\ pc' = "done"
    /\ result' = Nil
    /\ UNCHANGED <<opts, digEnv, table0, table, rules, i, cmds,
                   timeoutCh, stopCh, waits>>

\* The end of the loop at lines 84-89 and the return at line 91.
RevertDone ==
    /\ pc = "reverting"
    /\ i > Len(rules)
    /\ pc' = "done"
    /\ result' = Nil
    /\ UNCHANGED <<opts, digEnv, table0, table, rules, i, cmds,
                   timeoutCh, stopCh, waits>>

\* The timer created by NewOptionalTimeoutCh expires: its channel holds a value.
TimerFire ==
    /\ timeoutCh = "armed"
    /\ timeoutCh' = "fired"
    /\ UNCHANGED <<opts, digEnv, table0, table, pc, rules, i, cmds, result,
                   stopCh, waits>>

\* The caller of Execute signals stopCh, at any moment of the invocation.
StopSignal ==
    /\ stopCh = "open"
    /\ stopCh' = "ready"
    /\ UNCHANGED <<opts, digEnv, table0, table, pc, rules, i, cmds, result,
                   timeoutCh, waits>>

Next ==
    \/ ParseTimeout
    \/ RulesIteration
    \/ RulesReturn
    \/ ApplyRule
    \/ ApplyDone
    \/ Wait
    \/ RevertRule
    \/ RevertDone
    \/ TimerFire
    \/ StopSignal

Spec == Init /\ [][Next]_vars

\* A step of the goroutine that runs Execute.
ExecuteStep ==
    \/ ParseTimeout
    \/ RulesIteration
    \/ RulesReturn
    \/ ApplyRule
    \/ ApplyDone
    \/ Wait
    \/ RevertRule
    \/ RevertDone

\* The targets of the runs checked for progress: two rules, one rule, an error.
LiveTargetSet ==
    { T(H_ip, <<>>, <<>>, <<>>, <<>>),
      T(<<>>, S_INPUT, <<>>, P_80, <<>>),
      T(<<>>, <<>>, <<>>, <<>>, <<>>) }

LiveInit ==
    /\ opts \in [Timeout : {<<>>, <<"5","s">>},
                 Targets : SeqsUpTo(LiveTargetSet, MaxTargets)]
    /\ digEnv \in [{H_name} -> {[ok |-> FALSE, output |-> <<>>]}]
    /\ table0 = EmptyBag
    /\ table = table0
    /\ pc = "start"
    /\ rules = <<>>
    /\ i = 0
    /\ cmds = <<>>
    /\ result = Nil
    /\ timeoutCh = "nil"
    /\ stopCh = "open"
    /\ waits = <<>>

\* The scheduling of the goroutine that runs Execute: a step of it that stays
\* possible is eventually taken (every command returns). Nothing is assumed
\* about the timer or about the caller's stop signal.
FairSpec == LiveInit /\ [][Next]_vars /\ WF_vars(ExecuteStep)

\* ------------------------------------------- the rule compiler on its own
\* BlackholeTarget values for the runs of BlackholeTask.rules alone: each
\* direction in several letter cases (with letters outside ASCII that have an
\* ASCII capital or small letter) and some that do not exist, each protocol,
\* port strings that are a port, a range, or neither, and hosts that are
\* empty, literals (one, two with a prefix, one inside other text) or a name.
H_in == <<"x","1","0",".","0",".","0",".","5","y">>

RulesTargetSet ==
    { T(<<>>, <<>>, <<>>, <<>>, <<>>),
      T(H_ip, <<>>, <<>>, <<>>, <<>>),
      T(H_ip, S_INPUT, <<>>, <<>>, <<>>),
      T(H_ip, <<"O","u","t","p","u","t">>, <<"i","c","m","p">>, <<>>, <<>>),
      T(H_two, <<"b","o","t","h">>, <<"u","d","p">>, <<"8","0",":","9","0">>, <<>>),
      T(H_in, <<"B","O","T","H">>, <<"A","l","l">>, <<>>, P_80),
      T(H_name, <<>>, <<>>, <<>>, <<>>),
      T(H_name, <<"i","n","p","u","t">>, <<"T","C","P">>, P_80, <<"9","0">>),
      T(H_name, <<"u","p">>, <<>>, <<>>, <<>>),
      T(<<>>, S_OUTPUT, <<"t","c","p">>, P_80, <<>>),
      T(<<>>, <<DotlessI,"n","p","u","t">>, <<DottedI,"c","m","p">>, P_80, <<>>),
      T(<<>>, <<DottedI,"N","P","U","T">>, <<>>, P_80, <<>>),
      T(<<>>, <<>>, <<"i","c","m",DotlessI>>, P_80, <<>>),
      T(<<>>, <<"I","N">>, <<>>, P_80, <<>>),
      T(<<>>, <<" ">>, <<>>, P_80, <<>>),
      T(<<>>, <<>>, <<"i","p">>, P_80, <<>>),
      T(<<>>, <<>>, <<>>, <<"a","b","c">>, <<>>),
      T(<<>>, <<>>, <<>>, <<"8","0",":">>, <<>>),
      T(<<>>, <<>>, <<>>, <<"8","0","a">>, <<>>),
      T(<<>>, <<>>, <<>>, <<>>, <<":","8","0">>),
      T(<<>>, <<>>, <<>>, <<"a","8","0">>, <<>>),
      T(H_ip, <<>>, <<>>, <<>>, <<"x"," ","1",":","2">>) }

\* The state at the entry of BlackholeTask.rules, called by an Execute without
\* a timeout: the options and the command runner are drawn, no rule is
\* compiled yet, the loop is at the first target.
RulesInit ==
    /\ opts \in [Timeout : {<<>>}, Targets : SeqsUpTo(RulesTargetSet, MaxTargets)]
    /\ digEnv \in [{H_name} -> DigOutcomes]
    /\ table0 = EmptyBag
    /\ table = table0
    /\ pc = "compile"
    /\ rules = <<>>
    /\ i = 1
    /\ cmds = <<>>
    /\ result = Nil
    /\ timeoutCh = "nil"
    /\ stopCh = "open"
    /\ waits = <<>>

RulesNext ==
    \/ RulesIteration
    \/ RulesReturn

RulesSpec == RulesInit /\ [][RulesNext]_vars

\* ------------------------------------------------- vocabulary of the claims
\* The iptables commands issued so far, in order.
IptCmds == SelectSeq(cmds, LAMBDA c : c.name = "iptables")

\* What the specification compiles to; N below is the number of its rules.
Compiled == Rules(opts.Targets, digEnv)

Terminated == pc \in {"done", "failed"}

IsApply(c)  == c.args[1] = A_APPEND
IsRevert(c) == c.args[1] = A_DELETE

\* The bag holding the rules q[1..m].
RECURSIVE BagOfPrefix(_, _)
BagOfPrefix(q, m) ==
    IF m = 0 THEN EmptyBag ELSE BagOfPrefix(q, m - 1) (+) SetToBag({q[m]})

\* In the claims, c is the iptables commands issued so far, r the rules that
\* Execute got from the compilation (none before it) and N their number.
\* The first m of the commands c are the successful applies of rules r[1..m].
AppliedInOrder(c, r, m) ==
    /\ Len(c) >= m
    /\ \A k \in 1..m : c[k] = IptablesCmd(A_APPEND, r[k], TRUE)

\* The commands c[n+1..n+m], n the number of rules r, are the successful
\* reverts of rules r[1..m].
RevertedInOrder(c, r, m) ==
    /\ Len(c) >= Len(r) + m
    /\ \A k \in 1..m : c[Len(r) + k] = IptablesCmd(A_DELETE, r[k], TRUE)

\* ------------------------------------------------------------------ claims
\* C1: when every firewall command succeeds and the wait has ended, a
\* terminated Execute has issued exactly N applies in compiled order followed
\* by exactly N reverts in the same order, and returns no error; and in every
\* state a revert is issued only after the N applies.
C1_ApplyThenRevertSameOrder ==
    LET c == IptCmds
        r == rules
        N == Len(r)
    IN
    /\ \A k \in 1..Len(c) :
          IsRevert(c[k]) => (k > N /\ AppliedInOrder(c, r, N))
    /\ (Terminated /\ waits # <<>> /\ \A k \in 1..Len(c) : c[k].ok)
          => /\ Len(c) = 2 * N
             /\ AppliedInOrder(c, r, N)
             /\ RevertedInOrder(c, r, N)
             /\ pc = "done"
             /\ result = Nil

C1_Witness ==
    /\ pc = "done"
    /\ Len(rules) = 4
    /\ rules[1] # rules[3]
    /\ Len(IptCmds) = 8

\* C2: when the apply of rule k fails, it is the last command of the
\* invocation: rules 1..k-1 were applied and stay installed, rules k+1..N are
\* not attempted, no revert is issued, the select statement is never reached,
\* and Execute returns the apply error.
C2_ApplyFailureAborts ==
    LET c == IptCmds
        r == rules
        N == Len(r)
    IN
    \A k \in 1..Len(c) :
        (IsApply(c[k]) /\ ~c[k].ok)
            => /\ k = Len(c)
               /\ k <= N
               /\ AppliedInOrder(c, r, k - 1)
               /\ c[k] = IptablesCmd(A_APPEND, r[k], FALSE)
               /\ table = table0 (+) BagOfPrefix(r, k - 1)
               /\ waits = <<>>
               /\ pc = "failed"
               /\ result = IptablesErr(FALSE)

C2_Witness ==
    /\ pc = "failed"
    /\ Len(rules) = 4
    /\ Len(IptCmds) = 3
    /\ IsApply(IptCmds[3])
    /\ ~IptCmds[3].ok
    /\ stopCh = "ready"

\* C3: when the revert of rule k fails after the N applies, it is the last
\* command of the invocation: rules 1..k-1 have been reverted, rules k..N
\* stay installed, and Execute returns the revert error.
C3_RevertFailureAborts ==
    LET c == IptCmds
        r == rules
        N == Len(r)
    IN
    \A j \in 1..Len(c) :
        (IsRevert(c[j]) /\ ~c[j].ok)
            => /\ j = Len(c)
               /\ j > N
               /\ j <= 2 * N
               /\ AppliedInOrder(c, r, N)
               /\ RevertedInOrder(c, r, j - N - 1)
               /\ c[j] = IptablesCmd(A_DELETE, r[j - N], FALSE)
               /\ table (+) BagOfPrefix(r, j - N - 1) = table0 (+) BagOfPrefix(r, N)
               /\ pc = "failed"
               /\ result = IptablesErr(FALSE)

C3_Witness ==
    /\ pc = "failed"
    /\ Len(rules) = 4
    /\ Len(IptCmds) = 6
    /\ IsRevert(IptCmds[6])
    /\ ~IptCmds[6].ok

\* Some target of the specification fails when it is compiled on its own.
SomeTargetFails ==
    \E k \in 1..Len(opts.Targets) : TargetRules(opts.Targets[k], digEnv).err # Nil

FirstFailing ==
    CHOOSE k \in 1..Len(opts.Targets) :
        /\ TargetRules(opts.Targets[k], digEnv).err # Nil
        /\ \A j \in 1..(k - 1) : TargetRules(opts.Targets[j], digEnv).err = Nil

AllEmpty(target) ==
    target.Host = <<>> /\ target.DstPorts = <<>> /\ target.SrcPorts = <<>>

\* C4: when some target, at any position, fails validation or host
\* resolution, no iptables command is ever issued and the firewall table is
\* unchanged, Execute never succeeds and gets no rule, and once the targets
\* were compiled up to that target it returns the error of the first failing
\* target; a target with host, dstPorts and srcPorts all empty is such a target.
C4_CompilationAllOrNothing ==
    /\ \A k \in 1..Len(opts.Targets) :
          AllEmpty(opts.Targets[k]) => SomeTargetFails
    /\ SomeTargetFails
          => /\ IptCmds = <<>>
             /\ table = table0
             /\ pc = "failed" => rules = <<>>
             /\ pc \notin {"applying", "waiting", "reverting", "done"}
             /\ (pc = "failed" /\ NewOptionalTimeoutCh(opts.Timeout).err = Nil)
                   => result = TargetRules(opts.Targets[FirstFailing], digEnv).err

C4_Witness ==
    /\ pc = "failed"
    /\ Len(opts.Targets) = 2
    /\ TargetRules(opts.Targets[1], digEnv).err = Nil
    /\ TargetRules(opts.Targets[1], digEnv).digs # <<>>
    /\ AllEmpty(opts.Targets[2])
    /\ result.msg = "Must specify at least one of Host, DstPorts, and or SrcPorts."
    /\ Len(cmds) = 1

\* C5: when Execute returns no error, the successful reverts are one per
\* compiled rule and the firewall table is the bag of rules it was when
\* Execute was called, also when the compiled list holds a rule twice.
C5_DoneRestoresTable ==
    pc = "done"
        => LET c == IptCmds
               r == rules
           IN  /\ table = table0
               /\ Len(c) = 2 * Len(r)
               /\ RevertedInOrder(c, r, Len(r))

C5_Witness ==
    /\ pc = "done"
    /\ Len(rules) = 4
    /\ rules[1] = rules[3]
    /\ BagIn(rules[1], table0)

\* C6: a terminated Execute returns no error exactly when the timeout parsed,
\* the targets compiled, all N applies succeeded, the select statement took a
\* case once, and all N reverts succeeded; otherwise it returns an error.
C6_SuccessOnlyAfterFullRun ==
    Terminated
        => LET c == IptCmds
               r == rules
               full == /\ NewOptionalTimeoutCh(opts.Timeout).err = Nil
                       /\ Compiled.err = Nil
                       /\ r = Compiled.rules
                       /\ Len(c) = 2 * Len(r)
                       /\ AppliedInOrder(c, r, Len(r))
                       /\ Len(waits) = 1
                       /\ RevertedInOrder(c, r, Len(r))
           IN  /\ (result = Nil) <=> full
               /\ (pc = "done") <=> (result = Nil)

C6_Witness ==
    /\ pc = "failed"
    /\ result = IptablesErr(FALSE)
    /\ Len(rules) = 2
    /\ Len(IptCmds) = 4
    /\ waits = <<"timer">>

\* C7: the select statement takes a case at most once in an invocation, the
\* case of a signal that had fired; the other signal firing too, before or
\* after, starts neither a second wait nor a second revert pass: the reverts
\* issued are those of rules 1, 2, ... in order, each at most once.
C7_SingleWaitSingleRevertPass ==
    LET c == IptCmds
        r == rules
        nrev == Len(SelectSeq(c, IsRevert))
    IN
    /\ Len(waits) <= 1
    /\ pc \in {"reverting", "done"} => Len(waits) = 1
    /\ waits = <<"timer">> => (timeoutCh = "received" /\ stopCh \in {"open", "ready"})
    /\ waits = <<"stop">> => (stopCh = "received" /\ timeoutCh # "received")
    /\ nrev <= Len(r)
    /\ nrev > 0 => /\ Len(waits) = 1
                   /\ Len(c) = Len(r) + nrev
                   /\ \A k \in 1..nrev :
                         /\ IsRevert(c[Len(r) + k])
                         /\ c[Len(r) + k].args = IptablesCmd(A_DELETE, r[k], TRUE).args

C7_Witness ==
    /\ pc = "done"
    /\ waits = <<"timer">>
    /\ stopCh = "ready"
    /\ Len(rules) = 4

\* C8: without a timeout, an invocation that is at the select statement
\* while the stop signal has not been delivered has its N rules installed,
\* and no step takes it out of the wait, changes the table or issues a command.
C8_NoTimeoutWaitsForStop ==
    [][ (pc = "waiting" /\ opts.Timeout = <<>> /\ stopCh = "open")
            => /\ table = table0 (+) BagOfPrefix(rules, Len(rules))
               /\ pc' = "waiting"
               /\ table' = table
               /\ cmds' = cmds
               /\ waits' = waits ]_vars

C8_Witness ==
    /\ pc = "waiting"
    /\ opts.Timeout = <<>>
    /\ stopCh = "open"
    /\ Len(rules) = 3

SignalFired == timeoutCh = "fired" \/ stopCh = "ready"

\* C9: under the fairness of FairSpec, an invocation that is at the select
\* statement when the timer has fired or the stop signal was delivered
\* eventually enters the revert loop, and eventually returns: with no error,
\* or with the error of a revert that failed.
C9_SignalledWaitEnds ==
    /\ (pc = "waiting" /\ SignalFired) ~> (pc = "reverting")
    /\ (pc = "waiting" /\ SignalFired)
          ~> \/ pc = "done"
             \/ /\ pc = "failed"
                /\ IptCmds # <<>>
                /\ IsRevert(IptCmds[Len(IptCmds)])
                /\ ~IptCmds[Len(IptCmds)].ok

C9_Witness ==
    /\ pc = "waiting"
    /\ timeoutCh = "fired"
    /\ stopCh = "open"
    /\ Len(rules) = 2

\* C10: the signals are looked at only by the select statement. While rules
\* remain to apply, a step of Execute applies the next rule, whether or not
\* a signal has fired, and the wait is reached only after the N applies;
\* while rules remain to revert, a step of Execute reverts the next rule, and
\* Execute returns no error only after the N reverts.
C10_SignalsObservedOnlyWhileWaiting ==
    [][ /\ (pc = "applying" /\ i <= Len(rules) /\ pc' # pc)
            => (pc' = "failed" /\ ~cmds'[Len(cmds')].ok)
        /\ (pc = "applying" /\ cmds' # cmds)
            => \E ok \in BOOLEAN :
                  cmds' = Append(cmds, IptablesCmd(A_APPEND, rules[i], ok))
        /\ (pc = "applying" /\ pc' = "waiting")
            => AppliedInOrder(IptCmds, rules, Len(rules))
        /\ (pc = "reverting" /\ i <= Len(rules) /\ pc' # pc)
            => (pc' = "failed" /\ ~cmds'[Len(cmds')].ok)
        /\ (pc = "reverting" /\ cmds' # cmds)
            => \E ok \in BOOLEAN :
                  cmds' = Append(cmds, IptablesCmd(A_DELETE, rules[i], ok))
        /\ (pc = "reverting" /\ pc' = "done")
            => RevertedInOrder(IptCmds, rules, Len(rules)) ]_vars

C10_Witness ==
    /\ pc = "applying"
    /\ i = 3
    /\ Len(rules) = 4
    /\ stopCh = "ready"
    /\ timeoutCh = "fired"

\* C11: the revert command of a rule is the apply command of that rule with
\* the leading action token -D in place of -A: the same program, and after
\* the action the same arguments (chain, host list, protocol, ports, target),
\* which are the fields of the compiled rule.
C11_RevertDiffersOnlyInAction ==
    LET c == IptCmds
        N == Len(rules)
    IN
    \A j \in 1..Len(c) :
        IsRevert(c[j])
            => /\ j > N
               /\ IsApply(c[j - N])
               /\ c[j].name = c[j - N].name
               /\ Len(c[j].args) = Len(c[j - N].args)
               /\ \A a \in 2..Len(c[j].args) : c[j].args[a] = c[j - N].args[a]
               /\ Tail(c[j].args) = SplitSpace(rules[j - N])

C11_Witness ==
    /\ pc = "done"
    /\ Len(rules) = 3
    /\ Len(IptCmds) = 6
    /\ IsRevert(IptCmds[6])
    /\ \E a \in 1..Len(IptCmds[6].args) :
          IptCmds[6].args[a] = <<"8","0",":","9","0">>
    /\ \E a \in 1..Len(IptCmds[6].args) :
          IptCmds[6].args[a] = <<"1",".","1",".","1",".","1",",","2",".","2",".","2",".","2","/","2","4">>

\* In the claims about the compiler, a step that compiles target
\* t = opts.Targets[i] is looked at: NewRules is what it appends to the rules.
\* NCompiled is the number of targets compiled so far.
IterationStep == pc = "compile" /\ i <= Len(opts.Targets)

NewRules == SubSeq(rules', Len(rules) + 1, Len(rules'))

NCompiled ==
    IF pc = "compile" THEN i - 1
    ELSE IF pc \in {"start", "failed"} THEN 0
    ELSE Len(opts.Targets)

\* d spells the word w, written in capitals, in some letter case: each of its
\* characters is the capital or a letter that has this capital (the small
\* letter, and for I and S also the dotless i and the long s).
EqualFold(d, w) ==
    /\ Len(d) = Len(w)
    /\ \A k \in 1..Len(w) :
          \/ d[k] = w[k]
          \/ \E j \in 1..Len(Uppers) : Uppers[j] = w[k] /\ Lowers[j] = d[k]
          \/ w[k] = "I" /\ d[k] = DotlessI
          \/ w[k] = "S" /\ d[k] = LongS

\* d spells the word w, written in small letters, in some letter case: each
\* of its characters is the small letter or a letter that has this small
\* letter (the capital, and for i and k also the dotted I and the Kelvin sign).
EqualFoldLower(d, w) ==
    /\ Len(d) = Len(w)
    /\ \A k \in 1..Len(w) :
          \/ d[k] = w[k]
          \/ \E j \in 1..Len(Lowers) : Lowers[j] = w[k] /\ Uppers[j] = d[k]
          \/ w[k] = "i" /\ d[k] = DottedI
          \/ w[k] = "k" /\ d[k] = KelvinK

\* The checks that come before the direction is looked at pass on target t.
ResolvesHost(t) ==
    /\ ~(t.Host = <<>> /\ t.DstPorts = <<>> /\ t.SrcPorts = <<>>)
    /\ \/ t.Host = <<>>
       \/ IpMatchString(t.Host)
       \/ Dig(t.Host, digEnv).err = Nil

\* The rule is a rule of the chain that matches the hosts of t, when it has
\* any, with the flag (-s or -d) right after the chain, the other flag absent.
OnChain(rule, chain, flag, other, t) ==
    LET f == SplitSpace(rule) IN
    /\ f[1] = chain
    /\ t.Host # <<>> => f[2] = flag
    /\ \A k \in 1..Len(f) : f[k] # other

\* C12: compiling a target whose direction is "" or BOTH in any letter case
\* appends exactly two rules, the INPUT rule (hosts as source, -s) and right
\* after it the OUTPUT rule (hosts as destination, -d); INPUT or OUTPUT in any
\* letter case appends exactly one rule, of that chain; such a direction is
\* never reported invalid; any other direction fails the compilation, with
\* the invalid-direction error naming it when the host checks passed. The
\* letter cases of a word are the strings that strings.ToUpper maps to it, the
\* dotless i being a small letter of I. The target {host: "10.0.0.5"}
\* compiles to the two rules the specification gives.
C12_DirectionChains ==
    [][ IterationStep =>
        LET t    == opts.Targets[i]
            d    == t.Direction
            both == d = <<>> \/ EqualFold(d, S_BOTH)
            inp  == EqualFold(d, S_INPUT)
            out  == EqualFold(d, S_OUTPUT)
            new  == NewRules
        IN
        /\ pc' = "compile" => SubSeq(rules', 1, Len(rules)) = rules
        /\ (pc' = "compile" /\ both)
              => /\ Len(new) = 2
                 /\ OnChain(new[1], S_INPUT, <<"-","s">>, <<"-","d">>, t)
                 /\ OnChain(new[2], S_OUTPUT, <<"-","d">>, <<"-","s">>, t)
        /\ (pc' = "compile" /\ inp)
              => /\ Len(new) = 1
                 /\ OnChain(new[1], S_INPUT, <<"-","s">>, <<"-","d">>, t)
        /\ (pc' = "compile" /\ out)
              => /\ Len(new) = 1
                 /\ OnChain(new[1], S_OUTPUT, <<"-","d">>, <<"-","s">>, t)
        /\ (both \/ inp \/ out) => result'.msg # "Invalid direction"
        /\ ~(both \/ inp \/ out)
              => /\ pc' = "failed"
                 /\ rules' = <<>>
                 /\ result' # Nil
                 /\ ResolvesHost(t) => result' = Err("Invalid direction", d)
        /\ t = T(H_ip, <<>>, <<>>, <<>>, <<>>)
              => new = << <<"I","N","P","U","T"," ","-","s"," ","1","0",".","0",".","0",".","5"," ","-","p"," ","a","l","l"," ","-","j"," ","D","R","O","P">>,
                          <<"O","U","T","P","U","T"," ","-","d"," ","1","0",".","0",".","0",".","5"," ","-","p"," ","a","l","l"," ","-","j"," ","D","R","O","P">> >>
      ]_vars

C12_Witness ==
    /\ pc = "compile"
    /\ i = 3
    /\ opts.Targets[1].Direction = <<"b","o","t","h">>
    /\ opts.Targets[2].Direction = <<"O","u","t","p","u","t">>
    /\ Len(rules) = 3

\* The whole of p is a decimal port or a low:high range of decimal ports.
WholePort(p) ==
    LET n == DigitRun(p, 1) IN
    /\ n >= 1
    /\ \/ n = Len(p)
       \/ /\ n + 1 <= Len(p)
          /\ p[n + 1] = ":"
          /\ DigitRun(p, n + 2) >= 1
          /\ n + 1 + DigitRun(p, n + 2) = Len(p)

BadPorts(t) ==
    \/ t.DstPorts # <<>> /\ ~WholePort(t.DstPorts)
    \/ t.SrcPorts # <<>> /\ ~WholePort(t.SrcPorts)

\* The checks that come before the ports are looked at pass on target t.
PassesUpToProtocol(t) ==
    /\ ResolvesHost(t)
    /\ t.Direction = <<>> \/ \E w \in {S_INPUT, S_OUTPUT, S_BOTH} : EqualFold(t.Direction, w)
    /\ t.Protocol = <<>> \/ \E w \in {S_tcp, S_udp, S_icmp, S_all} : EqualFoldLower(t.Protocol, w)

\* C13: a target is compiled only when each of its port strings is empty or
\* is, as a whole, a decimal port or a low:high range; a target with any other
\* port string fails the compilation, with the port validation error when the
\* checks before it passed, and no compiled rule carries, after -dport or
\* -sport, anything but such a port or range.
C13_PortsWholeString ==
    /\ \A k \in 1..Len(opts.Targets) :
          k <= NCompiled => ~BadPorts(opts.Targets[k])
    /\ (pc = "failed" /\ BadPorts(opts.Targets[i]) /\ PassesUpToProtocol(opts.Targets[i]))
          => result.msg = "Invalid destination port specified"
    /\ \A k \in 1..Len(rules) :
          LET f == SplitSpace(rules[k]) IN
          \A a \in 1..(Len(f) - 1) :
              f[a] \in {<<"-","d","p","o","r","t">>, <<"-","s","p","o","r","t">>}
                  => WholePort(f[a + 1])

\* The output the command runner gives for a dig command holds no IPv4 literal.
NoLiteralIn(output) == \A p \in 1..Len(output) : IpMatchEnds(output, p) = {}

\* C14: in every state, a dig command that failed, or that
\* succeeded with an output holding no IPv4 literal, is the last command of
\* the invocation: Execute has returned the resolution error in the first
\* case and the no-addresses error naming the host in the second, no rule was
\* produced, no iptables command is issued and the table is unchanged.
C14_ResolutionFailureAborts ==
    cmds # <<>>
        => \A k \in 1..Len(cmds) :
              LET c == cmds[k]
                  hostname == c.args[2]
                  lookupFails == ~c.ok
                  noAddress == c.ok /\ NoLiteralIn(digEnv[hostname].output)
              IN
              (c.name = "dig" /\ (lookupFails \/ noAddress))
                  => /\ k = Len(cmds)
                     /\ pc = "failed"
                     /\ lookupFails => result = Err("resolving host name", <<>>)
                     /\ noAddress => result = Err("No IPs found for host", hostname)
                     /\ rules = <<>>
                     /\ IptCmds = <<>>
                     /\ table = table0

C14_Witness ==
    /\ pc = "failed"
    /\ Len(opts.Targets) = 2
    /\ opts.Targets[1].Host = H_ip
    /\ opts.Targets[2].Host = H_name
    /\ result = Err("No IPs found for host", H_name)
    /\ Len(cmds) = 1
    /\ stopCh = "ready"

\* The phase of the lifecycle an invocation is in: Idle until Execute has
\* parsed the timeout, Applying while it compiles the targets and applies the
\* rules, Waiting at the select statement, Reverting in the second loop.
Phase(p) ==
    CASE p = "start"                  -> "Idle"
      [] p \in {"compile", "applying"} -> "Applying"
      [] p = "waiting"                -> "Waiting"
      [] p = "reverting"              -> "Reverting"
      [] p = "done"                   -> "Done"
      [] p = "failed"                 -> "Failed"

ListedEdges ==
    { <<"Idle", "Applying">>, <<"Applying", "Waiting">>,
      <<"Waiting", "Reverting">>, <<"Reverting", "Done">>,
      <<"Applying", "Failed">>, <<"Reverting", "Failed">> }

\* C15: every change of phase is along Idle -> Applying -> Waiting ->
\* Reverting -> Done, or into Failed from Applying or from Reverting; no step
\* taken in the Waiting phase returns an error.
C15_OnlyListedEdges ==
    [][ /\ Phase(pc') # Phase(pc) => <<Phase(pc), Phase(pc')>> \in ListedEdges
        /\ pc = "waiting" => (pc' # "failed" /\ result' = Nil) ]_vars

\* C15 as amended: the changes of phase are those above and, when the
\* timeout string does not parse, Idle -> Failed with the parse error, before
\* anything is compiled; no step taken in the Waiting phase returns an error;
\* the phases are passed in one direction, none is entered a second time, and
\* Done and Failed are never left.
C15_PhaseEdges ==
    [][ /\ Phase(pc') # Phase(pc)
            => \/ <<Phase(pc), Phase(pc')>> \in ListedEdges
               \/ /\ Phase(pc) = "Idle"
                  /\ Phase(pc') = "Failed"
                  /\ NewOptionalTimeoutCh(opts.Timeout).err # Nil
                  /\ result' = NewOptionalTimeoutCh(opts.Timeout).err
                  /\ cmds' = <<>>
        /\ (Phase(pc) = "Idle" /\ Phase(pc') = "Applying")
            => NewOptionalTimeoutCh(opts.Timeout).err = Nil
        /\ pc = "waiting" => (pc' \in {"waiting", "reverting"} /\ result' = Nil)
        /\ pc \in {"done", "failed"} => pc' = pc
        /\ (pc' = "failed") <=> (result' # Nil) ]_vars

C15_Witness ==
    /\ pc = "failed"
    /\ result = Err("Parsing timeout", <<"5","x">>)
    /\ Len(opts.Targets) = 2
    /\ cmds = <<>>
    /\ stopCh = "ready"

\* The IPv4 literals, with their prefix, that the literal hosts of
\* RulesTargetSet hold, in the order they occur.
LiteralsOf(h) ==
    CASE h = H_ip  -> <<H_ip>>
      [] h = H_in  -> <<H_ip>>
      [] h = H_two -> << <<"1",".","1",".","1",".","1">>,
                         <<"2",".","2",".","2",".","2","/","2","4">> >>

\* C16: compiling a target whose host holds an IPv4 literal issues no dig
\* command, and the host list of each rule it appends is all the literals of
\* the host string in order; compiling a target with an empty host issues no
\* dig command either; compiling a target whose host is not empty and holds no
\* literal issues exactly one command, dig +short with that host.
C16_LiteralHostsSkipLookup ==
    [][ IterationStep =>
        LET t == opts.Targets[i]
            literal == ~NoLiteralIn(t.Host)
            new == NewRules
        IN
        /\ literal
              => /\ cmds' = cmds
                 /\ result'.msg \notin {"resolving host name", "No IPs found for host"}
                 /\ pc' = "compile"
                       => /\ new # <<>>
                          /\ \A k \in 1..Len(new) :
                                LET f == SplitSpace(new[k]) IN
                                /\ f[2] \in {<<"-","s">>, <<"-","d">>}
                                /\ f[3] = JoinComma(LiteralsOf(t.Host))
        /\ t.Host = <<>> => cmds' = cmds
        /\ (t.Host # <<>> /\ ~literal)
              => cmds' = Append(cmds,
                                [name |-> "dig",
                                 args |-> << <<"+","s","h","o","r","t">>, t.Host >>,
                                 ok   |-> digEnv[t.Host].ok])
      ]_vars

C16_Witness ==
    /\ pc = "compile"
    /\ i = 3
    /\ opts.Targets[1].Host = H_two
    /\ opts.Targets[2].Host = H_name
    /\ Len(cmds) = 1
    /\ Len(rules) = 4

\* The chains a target with a valid direction compiles to, in order.
Chains(t) ==
    IF EqualFold(t.Direction, S_INPUT) THEN <<S_INPUT>>
    ELSE IF EqualFold(t.Direction, S_OUTPUT) THEN <<S_OUTPUT>>
    ELSE <<S_INPUT, S_OUTPUT>>

\* The addresses that the outputs of DigOutcomes hold, in order.
AddressesIn(output) ==
    CASE output = <<"1",".","2",".","3",".","4","\n">>
            -> << <<"1",".","2",".","3",".","4">> >>
      [] output = <<"1",".","1",".","1",".","1","\n","2",".","2",".","2",".","2","\n">>
            -> << <<"1",".","1",".","1",".","1">>, <<"2",".","2",".","2",".","2">> >>

\* The addresses of the host of a compiled target, in resolution order.
Addresses(t) ==
    IF t.Host = <<>> THEN <<>>
    ELSE IF t.Host \in {H_ip, H_in, H_two} THEN LiteralsOf(t.Host)
    ELSE AddressesIn(digEnv[t.Host].output)

\* C17: while and after the targets are compiled, the rules are those of the
\* targets compiled so far, in target order and for each target in chain
\* order: one rule per applicable chain however many addresses the host has,
\* the addresses being joined by commas, in resolution order, in the one host
\* field of that rule.
C17_ConcatenationInTargetOrder ==
    pc \in {"compile", "applying"}
        => LET n == NCompiled
               off[k \in 0..n] ==
                   IF k = 0 THEN 0
                   ELSE off[k - 1] + Len(Chains(opts.Targets[k]))
           IN
           /\ Len(rules) = off[n]
           /\ \A k \in 1..n :
                 LET t == opts.Targets[k] IN
                 \A c \in 1..Len(Chains(t)) :
                     LET f == SplitSpace(rules[off[k - 1] + c]) IN
                     /\ f[1] = Chains(t)[c]
                     /\ t.Host # <<>>
                           => /\ f[2] = (IF f[1] = S_INPUT THEN <<"-","s">> ELSE <<"-","d">>)
                              /\ f[3] = JoinComma(Addresses(t))
                              /\ Len(SelectSeq(f[3], LAMBDA x : x = ","))
                                    = Len(Addresses(t)) - 1
                     /\ t.Host = <<>> => f[2] = <<"-","p">>

C17_Witness ==
    /\ pc = "applying"
    /\ Len(opts.Targets) = 2
    /\ opts.Targets[1].Host = H_name
    /\ opts.Targets[1].Direction = <<>>
    /\ Len(Addresses(opts.Targets[1])) = 2
    /\ opts.Targets[2].Host = H_ip
    /\ Len(Chains(opts.Targets[2])) = 1
    /\ Len(rules) = 3

\* The last iptables command of a failed invocation failed.
LastCommandFailed ==
    /\ pc = "failed"
    /\ IptCmds # <<>>
    /\ ~IptCmds[Len(IptCmds)].ok

\* C18: the error returned for a failed iptables command carries the
\* description "applying rule" when the command was an apply and "reverting
\* rule" when it was a revert.
C18_ErrorNamesPhase ==
    LastCommandFailed
        => LET c == IptCmds[Len(IptCmds)] IN
           /\ IsApply(c) => result.msg = "applying rule"
           /\ IsRevert(c) => result.msg = "reverting rule"

\* C18 as amended: the error returned for a failed iptables command carries
\* the description "Shelling out to iptables", the same for an apply and for
\* a revert, and that description names neither phase.
C18_ErrorSameInBothPhases ==
    LastCommandFailed
        => /\ IsApply(IptCmds[Len(IptCmds)]) \/ IsRevert(IptCmds[Len(IptCmds)])
           /\ result = Err("Shelling out to iptables", <<>>)
           /\ result.msg \notin {"applying rule", "reverting rule"}

C18_Witness ==
    /\ LastCommandFailed
    /\ IsRevert(IptCmds[Len(IptCmds)])
    /\ Len(rules) = 2
    /\ Len(IptCmds) = 3
    /\ result.msg = "Shelling out to iptables"

\* The host of target t gives no address: it holds no literal, and the lookup
\* fails or its output holds no literal.
YieldsNoAddress(t) ==
    /\ t.Host # <<>>
    /\ NoLiteralIn(t.Host)
    /\ ~digEnv[t.Host].ok \/ NoLiteralIn(digEnv[t.Host].output)

\* C19: the rules that compiling a target appends have a host filter (-s or
\* -d with a host list that is not empty, right after the chain) when the
\* host of the target is not empty, and none (the protocol comes right after
\* the chain) when it is empty; a target whose host is not empty and gives no
\* address appends no rule: the compilation fails and returns no rule.
C19_HostFilterIffHost ==
    [][ IterationStep =>
        LET t == opts.Targets[i]
            new == NewRules
        IN
        /\ pc' = "compile"
              => \A k \in 1..Len(new) :
                    LET f == SplitSpace(new[k])
                        filter == f[2] \in {<<"-","s">>, <<"-","d">>}
                    IN
                    /\ filter <=> t.Host # <<>>
                    /\ filter => (f[3] # <<>> /\ f[4] = <<"-","p">>)
                    /\ ~filter => f[2] = <<"-","p">>
        /\ YieldsNoAddress(t)
              => /\ pc' = "failed"
                 /\ rules' = <<>>
                 /\ result' # Nil
      ]_vars

C19_Witness ==
    /\ pc = "failed"
    /\ i = 2
    /\ opts.Targets[1].Host = <<>>
    /\ opts.Targets[2].Host = H_name
    /\ digEnv[H_name].ok
    /\ NoLiteralIn(digEnv[H_name].output)
    /\ rules = <<>>

TimeoutParses == NewOptionalTimeoutCh(opts.Timeout).err = Nil

\* What C20 says of a single state: with a timeout that does not parse,
\* Execute is at its start or has returned the parse error, and has compiled
\* nothing, issued no command, taken no case of the select statement and left
\* the table alone; with one that parses, the timer exists from the moment
\* the compilation can begin, and its value is received at most by the select
\* statement.
ParsedFirst ==
    /\ ~TimeoutParses
          => /\ pc \in {"start", "failed"}
             /\ pc = "failed" => result = Err("Parsing timeout", opts.Timeout)
             /\ rules = <<>>
             /\ cmds = <<>>
             /\ waits = <<>>
             /\ table = table0
             /\ timeoutCh = "nil"
    /\ pc = "start" => (timeoutCh = "nil" /\ cmds = <<>> /\ rules = <<>>)
    /\ (TimeoutParses /\ opts.Timeout # <<>> /\ pc # "start") => timeoutCh # "nil"
    /\ timeoutCh = "received" => (waits = <<"timer">> /\ pc \in {"reverting", "done", "failed"})

\* C20: the timeout is parsed before anything else; an invalid one makes
\* Execute return the parse error without compiling, without a dig or an
\* iptables command and without waiting. The timer is created by the first
\* step of Execute, before the compilation and the applies; when it fires
\* while Execute compiles or applies, the step of Execute leaves it fired and
\* goes on compiling and applying, and only the select statement receives it.
C20_TimeoutParsedFirst ==
    [][ /\ ParsedFirst
        /\ ParsedFirst'
        /\ (timeoutCh = "nil" /\ timeoutCh' # "nil")
              => (pc = "start" /\ pc' = "compile" /\ timeoutCh' = "armed" /\ cmds = <<>>)
        /\ (timeoutCh = "fired" /\ pc \in {"compile", "applying"})
              => /\ timeoutCh' = "fired"
                 /\ pc' \in {"compile", "applying", "waiting", "failed"}
                 /\ pc' = "waiting" => AppliedInOrder(IptCmds, rules, Len(rules))
        /\ timeoutCh' = "received" /\ timeoutCh # "received"
              => (pc = "waiting" /\ timeoutCh = "fired" /\ pc' = "reverting")
      ]_vars

C20_Witness ==
    /\ pc = "failed"
    /\ opts.Timeout = <<"5","x">>
    /\ Len(opts.Targets) = 2
    /\ opts.Targets[1].Host = H_name
    /\ ~digEnv[H_name].ok
    /\ cmds = <<>>
    /\ table0 # EmptyBag

====
